---- MODULE Spec2Model ----
(***************************************************************************)
(* Food-menu API: Category and Item tables (app/models.py), the request    *)
(* schemas (app/schemas.py) and the route handlers                         *)
(* (app/routers/categories.py, app/routers/items.py).                      *)
(*                                                                         *)
(* Units: a price is an integer number of thousandths (12.999 is 12999),   *)
(* a rating an integer number of tenths (4.5 is 45).  An Optional value is *)
(* None (the empty tuple) or Some(v) (the one-element tuple <<v>>).  A     *)
(* JSON body is a function from the keys it carries to Optional values, so *)
(* a key that is absent differs from a key that is present with null.      *)
(***************************************************************************)
EXTENDS Integers, Sequences, FiniteSets, TLC

VARIABLES categories, items, next_category_id, next_item_id, clock, resp, session

vars == <<categories, items, next_category_id, next_item_id, clock, resp, session>>

\* ---------------------------------------------------------------- bounds
MaxCategories == 2
MaxItems == 2
MaxClock == 4
MaxRequests == 2
MaxPatchKeys == 2

\* ------------------------------------------------------ schema constants
CategoryNameMin == 3
CategoryNameMax == 80
CategoryDescriptionMax == 400
ItemNameMin == 1
ItemNameMax == 100
ItemDescriptionMax == 500
RatingMax == 50
DefaultLimit == 100

\* ------------------------------------------------------ optional values
None == <<>>
Some(v) == <<v>>
Val(o) == o[1]

Has(body, k) == k \in DOMAIN body

\* A key of a body that is present and not null.
Given(body, k) == Has(body, k) /\ body[k] # None

\* body.get(k) after schema defaults: the default when the key is absent.
FieldOr(body, k, default) == IF Has(body, k) THEN body[k] ELSE default

\* The mark of a key a request leaves out, and the JSON body of a record of
\* Optional values and marks: the keys that are not marked.
Unset == <<0, 0>>
Body(r) == [k \in {f \in DOMAIN r : r[f] # Unset} |-> r[k]]

\* ------------------------------------------------------------ the tables
Remove(table, id) == [i \in DOMAIN table \ {id} |-> table[i]]

Put(table, row) == [i \in DOMAIN table \cup {row.id} |-> IF i = row.id THEN row ELSE table[i]]

\* db.query(models.Category).filter(models.Category.id == id).first()
CategoryById(id) == IF id \in DOMAIN categories THEN Some(categories[id]) ELSE None

\* db.query(models.Item).filter(models.Item.id == id).first()
ItemById(id) == IF id \in DOMAIN items THEN Some(items[id]) ELSE None

\* The query by name filtering on the wrong column.
ExistingByName_WrongColumn(name) ==
    {c \in DOMAIN categories : categories[c].description = Some(name)}

\* db.query(Category).filter(Category.name == name).first()
ExistingByName(name) == {c \in DOMAIN categories : categories[c].name = Some(name)}

\* db.query(Category).filter(Category.name == name, Category.id != id).first()
ExistingOtherByName(name, id) == {c \in DOMAIN categories : categories[c].name = Some(name) /\ c # id}

\* The relationship restricted to the active items.
CategoryItems_ActiveOnly(cid) ==
    {i \in DOMAIN items : items[i].category_id = Some(cid) /\ items[i].is_active = Some(TRUE)}

\* Category.items, the relationship: the rows of items whose category_id is
\* the category's id
CategoryItems(cid) == {i \in DOMAIN items : items[i].category_id = Some(cid)}

\* The check for items left out.
HasItems_Never(cid) == FALSE

\* `if db_category.items:` in delete_category
HasItems(cid) == CategoryItems(cid) # {}

\* The constraints of the categories table, checked when a commit flushes:
\* name is NOT NULL and UNIQUE.
CategoryConstraints(cats) ==
    /\ \A c \in DOMAIN cats : cats[c].name # None
    /\ \A c, d \in DOMAIN cats : c # d => cats[c].name # cats[d].name

\* The constraints of the items table: category_id, name and price are NOT
\* NULL, and category_id is a foreign key to categories.id.
ItemConstraints(cats, its) ==
    \A i \in DOMAIN its :
        /\ its[i].category_id # None
        /\ its[i].name # None
        /\ its[i].price # None
        /\ Val(its[i].category_id) \in DOMAIN cats

\* The body dumped without exclude_unset: a description it does not carry is
\* written as None.
ApplyPatch_DropUnset(row, patch) ==
    [k \in DOMAIN row |-> IF k \in DOMAIN patch THEN patch[k]
                          ELSE IF k = "description" THEN None ELSE row[k]]

\* `for field, value in update_data.items(): setattr(row, field, value)` with
\* update_data = model_dump(exclude_unset=True): the keys the body carries.
ApplyPatch(row, patch) == [k \in DOMAIN row |-> IF k \in DOMAIN patch THEN patch[k] ELSE row[k]]

\* A Column default: the ORM leaves a None attribute out of the INSERT, and
\* the column's default is stored in its place.
ColumnDefault(v, default) == IF v = None THEN default ELSE v

\* Python truthiness of an Optional[str] / Optional[int] in an `if`.
TruthyStr(o) == o # None /\ Val(o) # ""
TruthyInt(o) == o # None /\ Val(o) # 0

\* `not x` for an Optional[bool]: not None is True.
PyNot(o) == IF o = None THEN TRUE ELSE ~Val(o)

RECURSIVE Ascending(_)
\* The ids of a set in primary-key order, the order a query returns rows in.
Ascending(S) ==
    IF S = {} THEN <<>>
    ELSE LET m == CHOOSE x \in S : \A y \in S : x <= y IN <<m>> \o Ascending(S \ {m})

\* query.offset(skip).limit(limit).all()
Window(seq, skip, limit) ==
    LET lo == skip + 1
        hi == IF skip + limit < Len(seq) THEN skip + limit ELSE Len(seq) IN
    IF lo > hi THEN <<>> ELSE SubSeq(seq, lo, hi)

Rows(table, ids) == [n \in 1..Len(ids) |-> table[ids[n]]]

Response(op, status, body) == [op |-> op, status |-> status, body |-> body]

\* ---------------------------------------------------- category schemas
LenIn(o, lo, hi) == Len(Val(o)) >= lo /\ Len(Val(o)) <= hi

\* CategoryCreate: name required, 3..80 characters; description optional,
\* at most 400 characters.
CategoryCreateValid(body) ==
    /\ Given(body, "name") /\ LenIn(body["name"], CategoryNameMin, CategoryNameMax)
    /\ Given(body, "description") => LenIn(body["description"], 0, CategoryDescriptionMax)

\* category.model_dump(): every field, the defaults filled in.
CategoryCreateDump(body) ==
    [name |-> body["name"], description |-> FieldOr(body, "description", None)]

\* CategoryUpdate: both fields Optional with default None.
CategoryUpdateValid(body) ==
    /\ Given(body, "name") => LenIn(body["name"], CategoryNameMin, CategoryNameMax)
    /\ Given(body, "description") => LenIn(body["description"], 0, CategoryDescriptionMax)

\* --------------------------------------------------- category handlers
create_category(body) ==
    /\ UNCHANGED <<items, next_item_id, clock, session>>
    /\ IF ~CategoryCreateValid(body)
       THEN /\ resp' = Response("create_category", "validation_error", None)
            /\ UNCHANGED <<categories, next_category_id>>
       ELSE LET category == CategoryCreateDump(body) IN
            IF ExistingByName(Val(category.name)) # {}
            THEN /\ resp' = Response("create_category", "duplicate_name", None)
                 /\ UNCHANGED <<categories, next_category_id>>
            ELSE LET db_category == [id |-> next_category_id, name |-> category.name,
                                     description |-> category.description]
                     cats == Put(categories, db_category) IN
                 /\ next_category_id <= MaxCategories
                 /\ next_category_id' = next_category_id + 1
                 /\ IF CategoryConstraints(cats)
                    THEN /\ categories' = cats
                         /\ resp' = Response("create_category", "ok", db_category)
                    ELSE /\ UNCHANGED categories
                         /\ resp' = Response("create_category", "internal_error", None)

list_categories(skip, limit) ==
    /\ UNCHANGED <<categories, items, next_category_id, next_item_id, clock, session>>
    /\ resp' = Response("list_categories", "ok",
                        Rows(categories, Window(Ascending(DOMAIN categories), skip, limit)))

get_category(category_id) ==
    /\ UNCHANGED <<categories, items, next_category_id, next_item_id, clock, session>>
    /\ IF CategoryById(category_id) = None
       THEN resp' = Response("get_category", "not_found", None)
       ELSE resp' = Response("get_category", "ok",
                             [category |-> categories[category_id],
                              items |-> CategoryItems(category_id)])

\* The name check made after the other fields were set and committed.
update_category_ApplyFirst(category_id, body) ==
    /\ UNCHANGED <<items, next_category_id, next_item_id, clock, session>>
    /\ IF ~CategoryUpdateValid(body)
       THEN /\ resp' = Response("update_category", "validation_error", None)
            /\ UNCHANGED categories
       ELSE IF CategoryById(category_id) = None
       THEN /\ resp' = Response("update_category", "not_found", None)
            /\ UNCHANGED categories
       ELSE IF Has(body, "name") /\ TruthyStr(body["name"])
               /\ ExistingOtherByName(Val(body["name"]), category_id) # {}
       THEN /\ resp' = Response("update_category", "duplicate_name", None)
            /\ categories' = Put(categories,
                    ApplyPatch(categories[category_id],
                               [k \in DOMAIN body \ {"name"} |-> body[k]]))
       ELSE LET db_category == ApplyPatch(categories[category_id], body)
                cats == Put(categories, db_category) IN
            IF CategoryConstraints(cats)
            THEN /\ categories' = cats
                 /\ resp' = Response("update_category", "ok", db_category)
            ELSE /\ UNCHANGED categories
                 /\ resp' = Response("update_category", "internal_error", None)

update_category(category_id, body) ==
    /\ UNCHANGED <<items, next_category_id, next_item_id, clock, session>>
    /\ IF ~CategoryUpdateValid(body)
       THEN /\ resp' = Response("update_category", "validation_error", None)
            /\ UNCHANGED categories
       ELSE IF CategoryById(category_id) = None
       THEN /\ resp' = Response("update_category", "not_found", None)
            /\ UNCHANGED categories
       ELSE IF Has(body, "name") /\ TruthyStr(body["name"])
               /\ ExistingOtherByName(Val(body["name"]), category_id) # {}
       THEN /\ resp' = Response("update_category", "duplicate_name", None)
            /\ UNCHANGED categories
       ELSE LET db_category == ApplyPatch(categories[category_id], body)
                cats == Put(categories, db_category) IN
            IF CategoryConstraints(cats)
            THEN /\ categories' = cats
                 /\ resp' = Response("update_category", "ok", db_category)
            ELSE /\ UNCHANGED categories
                 /\ resp' = Response("update_category", "internal_error", None)

delete_category(category_id) ==
    /\ UNCHANGED <<next_category_id, next_item_id, clock, session>>
    /\ IF CategoryById(category_id) = None
       THEN /\ resp' = Response("delete_category", "not_found", None)
            /\ UNCHANGED <<categories, items>>
       ELSE IF HasItems(category_id)
       THEN /\ resp' = Response("delete_category", "has_dependents",
                                Some(Cardinality(CategoryItems(category_id))))
            /\ UNCHANGED <<categories, items>>
       ELSE \* db.delete: the relationship's cascade="all, delete-orphan" deletes
            \* the category's items with it
            LET cats == Remove(categories, category_id)
                its == [i \in DOMAIN items \ CategoryItems(category_id) |-> items[i]] IN
            IF ItemConstraints(cats, its)
            THEN /\ categories' = cats
                 /\ items' = its
                 /\ resp' = Response("delete_category", "ok", None)
            ELSE /\ UNCHANGED <<categories, items>>
                 /\ resp' = Response("delete_category", "internal_error", None)

\* -------------------------------------------------------- item schemas
\* round(v, 2) of a price in thousandths: the nearest hundredth, a tie going
\* to the even hundredth.
Round2(v) ==
    LET r == v % 10
        down == v - r IN
    IF r < 5 THEN down
    ELSE IF r > 5 THEN down + 10
    ELSE IF (down \div 10) % 2 = 0 THEN down ELSE down + 10

\* ItemBase.validate_price: `if round(v, 2) != v: raise ValueError`
validate_price(v) == Round2(v) = v

\* ItemBase.validate_rating: `if v is not None and (v < 0.0 or v > 5.0): raise`
validate_rating(o) == ~(o # None /\ (Val(o) < 0 \/ Val(o) > RatingMax))

\* Field(..., ge=0.0, le=5.0) on an Optional[float]
RatingField(o) == o # None => (Val(o) >= 0 /\ Val(o) <= RatingMax)

\* ItemCreate(ItemBase): category_id, name and price required; rating
\* Optional with default 0.0; is_active a bool with default True.
ItemCreateValid(body) ==
    /\ Given(body, "category_id") /\ Val(body["category_id"]) > 0
    /\ Given(body, "name") /\ LenIn(body["name"], ItemNameMin, ItemNameMax)
    /\ Given(body, "description") => LenIn(body["description"], 0, ItemDescriptionMax)
    /\ Given(body, "price") /\ Val(body["price"]) > 0 /\ validate_price(Val(body["price"]))
    /\ Has(body, "rating") => (RatingField(body["rating"]) /\ validate_rating(body["rating"]))
    /\ Has(body, "is_active") => body["is_active"] # None

\* item.model_dump()
ItemCreateDump(body) ==
    [category_id |-> body["category_id"],
     name |-> body["name"],
     description |-> FieldOr(body, "description", None),
     price |-> body["price"],
     rating |-> FieldOr(body, "rating", Some(0)),
     is_active |-> FieldOr(body, "is_active", Some(TRUE))]

\* ItemUpdate(BaseModel): every field Optional with default None, the Field
\* constraints only.
ItemUpdateValid(body) ==
    /\ Given(body, "category_id") => Val(body["category_id"]) > 0
    /\ Given(body, "name") => LenIn(body["name"], ItemNameMin, ItemNameMax)
    /\ Given(body, "description") => LenIn(body["description"], 0, ItemDescriptionMax)
    /\ Given(body, "price") => Val(body["price"]) > 0
    /\ Has(body, "rating") => RatingField(body["rating"])

\* ------------------------------------------------------- item handlers
create_item(body) ==
    /\ UNCHANGED <<categories, next_category_id, session>>
    /\ IF ~ItemCreateValid(body)
       THEN /\ resp' = Response("create_item", "validation_error", None)
            /\ UNCHANGED <<items, next_item_id, clock>>
       ELSE LET item == ItemCreateDump(body) IN
            IF CategoryById(Val(item.category_id)) = None
            THEN /\ resp' = Response("create_item", "category_not_found", None)
                 /\ UNCHANGED <<items, next_item_id, clock>>
            ELSE LET now == clock + 1
                     db_item == [id |-> next_item_id,
                                 category_id |-> item.category_id,
                                 name |-> item.name,
                                 description |-> item.description,
                                 price |-> item.price,
                                 rating |-> ColumnDefault(item.rating, Some(0)),
                                 is_active |-> ColumnDefault(item.is_active, Some(TRUE)),
                                 created_at |-> now,
                                 updated_at |-> now]
                     its == Put(items, db_item) IN
                 /\ next_item_id <= MaxItems
                 /\ clock < MaxClock
                 /\ next_item_id' = next_item_id + 1
                 /\ clock' = now
                 /\ IF ItemConstraints(categories, its)
                    THEN /\ items' = its
                         /\ resp' = Response("create_item", "ok", db_item)
                    ELSE /\ UNCHANGED items
                         /\ resp' = Response("create_item", "internal_error", None)

\* The filters of list_items, each applied only when supplied; a comparison
\* with a NULL column selects nothing.
ByCategory(S, q) ==
    IF q.category_id # None THEN {i \in S : items[i].category_id = q.category_id} ELSE S

ByActive(S, q) ==
    IF q.is_active # None THEN {i \in S : items[i].is_active = q.is_active} ELSE S

ByMinPrice(S, q) ==
    IF q.min_price # None
    THEN {i \in S : items[i].price # None /\ Val(items[i].price) >= Val(q.min_price)} ELSE S

\* The upper price bound taken as exclusive.
ByMaxPrice_Exclusive(S, q) ==
    IF q.max_price # None
    THEN {i \in S : items[i].price # None /\ Val(items[i].price) < Val(q.max_price)} ELSE S

ByMaxPrice(S, q) ==
    IF q.max_price # None
    THEN {i \in S : items[i].price # None /\ Val(items[i].price) <= Val(q.max_price)} ELSE S

ByMinRating(S, q) ==
    IF q.min_rating # None
    THEN {i \in S : items[i].rating # None /\ Val(items[i].rating) >= Val(q.min_rating)} ELSE S

\* Query(None, ge=0) on min_price and max_price, Query(None, ge=0, le=5) on
\* min_rating
ListItemsValid(q) ==
    /\ q.min_price # None => Val(q.min_price) >= 0
    /\ q.max_price # None => Val(q.max_price) >= 0
    /\ q.min_rating # None => (Val(q.min_rating) >= 0 /\ Val(q.min_rating) <= RatingMax)

\* The rows list_items returns for a query it accepts.
list_items_rows(q) ==
    LET query == ByMinRating(ByMaxPrice(ByMinPrice(ByActive(
                     ByCategory(DOMAIN items, q), q), q), q), q) IN
    Rows(items, Window(Ascending(query), q.skip, q.limit))

\* The answer is kept with the query it answers.
list_items(q) ==
    /\ UNCHANGED <<categories, items, next_category_id, next_item_id, clock, session>>
    /\ IF ~ListItemsValid(q)
       THEN resp' = Response("list_items", "validation_error", None)
       ELSE resp' = Response("list_items", "ok", [query |-> q, items |-> list_items_rows(q)])

get_item(item_id) ==
    /\ UNCHANGED <<categories, items, next_category_id, next_item_id, clock, session>>
    /\ IF ItemById(item_id) = None
       THEN resp' = Response("get_item", "not_found", None)
       ELSE resp' = Response("get_item", "ok",
                             [item |-> items[item_id],
                              category |-> CategoryById(Val(items[item_id].category_id))])

update_item(item_id, body) ==
    /\ UNCHANGED <<categories, next_category_id, next_item_id, session>>
    /\ IF ~ItemUpdateValid(body)
       THEN /\ resp' = Response("update_item", "validation_error", None)
            /\ UNCHANGED <<items, clock>>
       ELSE IF ItemById(item_id) = None
       THEN /\ resp' = Response("update_item", "not_found", None)
            /\ UNCHANGED <<items, clock>>
       ELSE IF Has(body, "category_id") /\ TruthyInt(body["category_id"])
               /\ CategoryById(Val(body["category_id"])) = None
       THEN /\ resp' = Response("update_item", "category_not_found", None)
            /\ UNCHANGED <<items, clock>>
       ELSE LET patched == ApplyPatch(items[item_id], body) IN
            IF patched = items[item_id]
            THEN \* no attribute changed: the commit emits no UPDATE
                 /\ resp' = Response("update_item", "ok", patched)
                 /\ UNCHANGED <<items, clock>>
            ELSE LET now == clock + 1
                     db_item == [patched EXCEPT !.updated_at = now]
                     its == Put(items, db_item) IN
                 IF ItemConstraints(categories, its)
                 THEN /\ clock < MaxClock
                      /\ clock' = now
                      /\ items' = its
                      /\ resp' = Response("update_item", "ok", db_item)
                 ELSE /\ UNCHANGED <<items, clock>>
                      /\ resp' = Response("update_item", "internal_error", None)

delete_item(item_id) ==
    /\ UNCHANGED <<categories, next_category_id, next_item_id, clock, session>>
    /\ IF ItemById(item_id) = None
       THEN /\ resp' = Response("delete_item", "not_found", None)
            /\ UNCHANGED items
       ELSE /\ items' = Remove(items, item_id)
            /\ resp' = Response("delete_item", "ok", None)

toggle_item_active(item_id) ==
    /\ UNCHANGED <<categories, next_category_id, next_item_id, session>>
    /\ IF ItemById(item_id) = None
       THEN /\ resp' = Response("toggle_item_active", "not_found", None)
            /\ UNCHANGED <<items, clock>>
       ELSE LET now == clock + 1
                db_item == [items[item_id] EXCEPT !.is_active = Some(PyNot(@)),
                                                  !.updated_at = now] IN
            /\ clock < MaxClock
            /\ clock' = now
            /\ items' = Put(items, db_item)
            /\ resp' = Response("toggle_item_active", "ok",
                                [item |-> db_item, found |-> items[item_id].is_active])

\* ------------------------------------------------------ the requests tried
CategoryIds == 1..MaxCategories
ItemIds == 1..MaxItems

CategoryCreateBodies ==
    {Body(r) : r \in [name : {Unset, Some("ab"), Some("abc"), Some("abd")},
                      description : {Unset, Some("d")}]}

CategoryUpdateBodies ==
    {Body(r) : r \in [name : {Unset, None, Some("abc"), Some("abd")},
                      description : {Unset, None, Some("d")}]}

ItemCreateBodies ==
    {Body(r) : r \in [category_id : {Some(c) : c \in 0..MaxCategories},
                      name : {Some("X")},
                      description : {Unset},
                      price : {Some(1500)},
                      rating : {Unset},
                      is_active : {Unset}]}

ItemUpdateBodies ==
    {b \in {Body(r) : r \in [category_id : {Unset, None} \cup {Some(c) : c \in 0..MaxCategories},
                             name : {Unset},
                             description : {Unset, Some("d")},
                             price : {Unset},
                             rating : {Unset},
                             is_active : {Unset, Some(FALSE)}]} :
        Cardinality(DOMAIN b) <= MaxPatchKeys}

\* ------------------------------------------------- the sequential system
Init ==
    /\ categories = <<>>
    /\ items = <<>>
    /\ next_category_id = 1
    /\ next_item_id = 1
    /\ clock = 0
    /\ resp = Response("none", "none", None)
    /\ session = <<>>

CreateCategory == \E body \in CategoryCreateBodies : create_category(body)
UpdateCategory == \E id \in CategoryIds, body \in CategoryUpdateBodies : update_category(id, body)
DeleteCategory == \E id \in CategoryIds : delete_category(id)
CreateItem == \E body \in ItemCreateBodies : create_item(body)
UpdateItem == \E id \in ItemIds, body \in ItemUpdateBodies : update_item(id, body)
DeleteItem == \E id \in ItemIds : delete_item(id)
ToggleItemActive == \E id \in ItemIds : toggle_item_active(id)

\* The write handlers, one request after another.
Next ==
    \/ CreateCategory
    \/ UpdateCategory
    \/ DeleteCategory
    \/ CreateItem
    \/ UpdateItem
    \/ DeleteItem
    \/ ToggleItemActive

Spec == Init /\ [][Next]_vars

\* ------------------------------- the item handlers, every field in play
SeedCategoryBodies == {Body(r) : r \in [name : {Some("abc"), Some("abd")}, description : {Unset}]}

RichItemCreateBodies ==
    {Body(r) : r \in [category_id : {Some(1)},
                      name : {Some("X")},
                      description : {Unset},
                      price : {Some(1500), Some(12999)},
                      rating : {Unset, None, Some(51)},
                      is_active : {Unset, None}]}

RichItemUpdateBodies ==
    {b \in {Body(r) : r \in [category_id : {Unset, None} \cup {Some(c) : c \in 1..MaxCategories},
                             name : {Unset, Some("Y")},
                             description : {Unset, Some("d")},
                             price : {Unset, Some(0), Some(12999)},
                             rating : {Unset, None, Some(45), Some(51)},
                             is_active : {Unset, None, Some(FALSE)}]} :
        Cardinality(DOMAIN b) <= MaxPatchKeys}

SeedCategory == \E body \in SeedCategoryBodies : create_category(body)
CreateRichItem == \E body \in RichItemCreateBodies : create_item(body)
UpdateRichItem == \E id \in ItemIds, body \in RichItemUpdateBodies : update_item(id, body)

NextItem ==
    \/ SeedCategory
    \/ CreateRichItem
    \/ UpdateRichItem
    \/ ToggleItemActive

SpecItem == Init /\ [][NextItem]_vars

\* ------------------------------------------------------ the read handlers
\* A store after n create_item calls in two seeded categories.
ListRowKinds ==
    [category_id : {Some(1), Some(2)}, price : {Some(5000), Some(10000)},
     is_active : {Some(TRUE), Some(FALSE)}]

CreatedItems(kinds) ==
    [i \in DOMAIN kinds |->
        [id |-> i, category_id |-> kinds[i].category_id, name |-> Some("X"),
         description |-> None, price |-> kinds[i].price, rating |-> Some(45),
         is_active |-> kinds[i].is_active, created_at |-> i, updated_at |-> i]]

InitList ==
    /\ categories = <<[id |-> 1, name |-> Some("abc"), description |-> None],
                      [id |-> 2, name |-> Some("abd"), description |-> Some("d")]>>
    /\ next_category_id = 3
    /\ \E n \in 0..MaxItems : \E kinds \in [1..n -> ListRowKinds] :
          /\ items = CreatedItems(kinds)
          /\ next_item_id = n + 1
          /\ clock = n
    /\ resp = Response("none", "none", None)
    /\ session = <<>>

ListWindows == {<<0, DefaultLimit>>, <<1, 1>>}

ListQueries ==
    {[skip |-> w[1], limit |-> w[2], category_id |-> f.category_id,
      is_active |-> f.is_active, min_price |-> f.min_price, max_price |-> f.max_price,
      min_rating |-> f.min_rating] :
        w \in ListWindows,
        f \in [category_id : {None, Some(1)}, is_active : {None, Some(TRUE)},
               min_price : {None, Some(10000)}, max_price : {None, Some(5000)},
               min_rating : {None, Some(45)}]}

NoFilter ==
    [skip |-> 0, limit |-> DefaultLimit, category_id |-> None, is_active |-> None,
     min_price |-> None, max_price |-> None, min_rating |-> None]

BadQueries ==
    {[NoFilter EXCEPT !.min_price = Some(0 - 1)], [NoFilter EXCEPT !.min_rating = Some(51)]}

NullBodies == {Body([rating |-> None, is_active |-> Unset]), Body([rating |-> Unset, is_active |-> None])}

NullField == \E id \in ItemIds, body \in NullBodies : update_item(id, body)
ListItems == \E q \in ListQueries \cup BadQueries : list_items(q)
GetItem == \E id \in ItemIds : get_item(id)
ListCategories == \E skip \in {0, 1} : list_categories(skip, DefaultLimit)
GetCategory == \E id \in CategoryIds : get_category(id)

NextList ==
    \/ NullField
    \/ ListItems
    \/ GetItem
    \/ ListCategories
    \/ GetCategory

SpecList == InitList /\ [][NextList]_vars

\* ------------------------------------------- requests that run at once
\* Each request has its own database session (get_db).  The handler's queries
\* read the committed tables; its flush and commit are one step, which the
\* constraints of the table may refuse with an IntegrityError that no handler
\* catches.
Sessions == 1..MaxRequests

Idle == [pc |-> "idle", op |-> "none", target |-> 0, body |-> <<>>, loaded |-> None,
         out |-> "none"]

InitConc ==
    /\ categories = <<>>
    /\ items = <<>>
    /\ next_category_id = 1
    /\ next_item_id = 1
    /\ clock = 0
    /\ resp = Response("none", "none", None)
    /\ session = [p \in Sessions |-> Idle]

Answer(p, out) == session' = [session EXCEPT ![p].pc = "done", ![p].out = out]

\* create_category up to db.add: validation and the query by name.
create_category_check(p, body) ==
    /\ session[p].pc = "idle"
    /\ UNCHANGED <<categories, items, next_category_id, next_item_id, clock, resp>>
    /\ LET s == [Idle EXCEPT !.op = "create_category", !.body = body] IN
       IF ~CategoryCreateValid(body)
       THEN session' = [session EXCEPT ![p] = [s EXCEPT !.pc = "done", !.out = "validation_error"]]
       ELSE IF ExistingByName(Val(body["name"])) # {}
       THEN session' = [session EXCEPT ![p] = [s EXCEPT !.pc = "done", !.out = "duplicate_name"]]
       ELSE session' = [session EXCEPT ![p] = [s EXCEPT !.pc = "commit"]]

\* db.commit() of create_category: the INSERT takes the next identity value.
create_category_commit(p) ==
    /\ session[p].pc = "commit"
    /\ session[p].op = "create_category"
    /\ UNCHANGED <<items, next_item_id, clock, resp>>
    /\ LET category == CategoryCreateDump(session[p].body)
           db_category == [id |-> next_category_id, name |-> category.name,
                           description |-> category.description]
           cats == Put(categories, db_category) IN
       /\ next_category_id <= MaxCategories
       /\ next_category_id' = next_category_id + 1
       /\ IF CategoryConstraints(cats)
          THEN categories' = cats /\ Answer(p, "ok")
          ELSE UNCHANGED categories /\ Answer(p, "internal_error")

\* update_category up to the setattr loop: validation, the query by id and
\* the query by name.
update_category_check(p, category_id, body) ==
    /\ session[p].pc = "idle"
    /\ UNCHANGED <<categories, items, next_category_id, next_item_id, clock, resp>>
    /\ LET s == [Idle EXCEPT !.op = "update_category", !.target = category_id, !.body = body] IN
       IF ~CategoryUpdateValid(body)
       THEN session' = [session EXCEPT ![p] = [s EXCEPT !.pc = "done", !.out = "validation_error"]]
       ELSE IF CategoryById(category_id) = None
       THEN session' = [session EXCEPT ![p] = [s EXCEPT !.pc = "done", !.out = "not_found"]]
       ELSE IF Has(body, "name") /\ TruthyStr(body["name"])
               /\ ExistingOtherByName(Val(body["name"]), category_id) # {}
       THEN session' = [session EXCEPT ![p] = [s EXCEPT !.pc = "done", !.out = "duplicate_name"]]
       ELSE session' = [session EXCEPT ![p] = [s EXCEPT !.pc = "commit",
                                                         !.loaded = CategoryById(category_id)]]

\* db.commit() of update_category: an UPDATE of the attributes whose value
\* differs from the one the session loaded.
update_category_commit(p) ==
    /\ session[p].pc = "commit"
    /\ session[p].op = "update_category"
    /\ UNCHANGED <<items, next_category_id, next_item_id, clock, resp>>
    /\ LET id == session[p].target
           body == session[p].body
           loaded == Val(session[p].loaded)
           changed == {k \in DOMAIN body : body[k] # loaded[k]}
           db_category == [k \in DOMAIN loaded |->
                               IF k \in changed THEN body[k] ELSE categories[id][k]]
           cats == Put(categories, db_category) IN
       IF CategoryConstraints(cats)
       THEN categories' = cats /\ Answer(p, "ok")
       ELSE UNCHANGED categories /\ Answer(p, "internal_error")

\* The response is sent and the worker takes the next request.
finish(p) ==
    /\ session[p].pc = "done"
    /\ session' = [session EXCEPT ![p] = Idle]
    /\ UNCHANGED <<categories, items, next_category_id, next_item_id, clock, resp>>

ConcCreateBodies == {Body(r) : r \in [name : {Some("abc"), Some("abd")}, description : {Unset}]}

ConcUpdateBodies ==
    {Body(r) : r \in [name : {Unset, Some("abc"), Some("abd")}, description : {Unset, Some("d")}]}

CreateCategoryCheck == \E p \in Sessions, body \in ConcCreateBodies : create_category_check(p, body)
CreateCategoryCommit == \E p \in Sessions : create_category_commit(p)
UpdateCategoryCheck ==
    \E p \in Sessions, id \in CategoryIds, body \in ConcUpdateBodies :
        update_category_check(p, id, body)
UpdateCategoryCommit == \E p \in Sessions : update_category_commit(p)
Finish == \E p \in Sessions : finish(p)

NextConc ==
    \/ CreateCategoryCheck
    \/ CreateCategoryCommit
    \/ UpdateCategoryCheck
    \/ UpdateCategoryCommit
    \/ Finish

SpecConc == InitConc /\ [][NextConc]_vars

\* ------------------------------------------------------------ properties
NamesUnique ==
    \A c, d \in DOMAIN categories : c # d => categories[c].name # categories[d].name

NameHeldBy(name) == {c \in DOMAIN categories : categories[c].name = name}

\* C1: no two stored categories ever have the same name; a create_category
\* whose valid name is held by a category answers duplicate_name, and so does
\* an update_category of an existing category whose new name is held by a
\* different category.
C1_UniqueNames ==
    [][/\ NamesUnique'
       /\ resp'.op = "create_category" =>
            \A body \in CategoryCreateBodies :
                (CategoryCreateValid(body) /\ NameHeldBy(body["name"]) # {}
                    /\ create_category(body))
                => (resp'.status = "duplicate_name" /\ categories' = categories)
       /\ resp'.op = "update_category" =>
            \A id \in CategoryIds, body \in CategoryUpdateBodies :
                (CategoryUpdateValid(body) /\ id \in DOMAIN categories
                    /\ Given(body, "name") /\ NameHeldBy(body["name"]) \ {id} # {}
                    /\ update_category(id, body))
                => (resp'.status = "duplicate_name" /\ categories' = categories)]_vars

\* A rename to a name another category holds has just been refused while two
\* categories are stored.
C1_Witness ==
    /\ resp.op = "update_category"
    /\ resp.status = "duplicate_name"
    /\ Cardinality(DOMAIN categories) = 2

Referencing(cid) == {i \in DOMAIN items : items[i].category_id = Some(cid)}

\* C2: delete_category of an existing category removes it, and nothing else,
\* exactly when no item references it; otherwise it answers has_dependents
\* with the number of items that reference it and removes nothing.
C2_DeleteIffNoItems ==
    [][resp'.op = "delete_category" =>
        \A id \in CategoryIds :
            (id \in DOMAIN categories /\ delete_category(id))
            => IF Referencing(id) = {}
               THEN /\ resp'.status = "ok"
                    /\ categories' = Remove(categories, id)
                    /\ items' = items
               ELSE /\ resp'.status = "has_dependents"
                    /\ resp'.body = Some(Cardinality(Referencing(id)))
                    /\ categories' = categories
                    /\ items' = items]_vars

\* A delete has just been refused with a count of two dependents.
C2_Witness ==
    /\ resp.op = "delete_category"
    /\ resp.status = "has_dependents"
    /\ resp.body = Some(2)
    /\ Cardinality(DOMAIN items) = 2

RefIntegrity ==
    \A i \in DOMAIN items :
        items[i].category_id # None /\ Val(items[i].category_id) \in DOMAIN categories

\* C3: every stored item's category_id is the id of a stored category; a
\* category_id that a step stores was the id of a category stored before
\* the step, and a step never removes a category an item references.
C3_ReferentialIntegrity ==
    [][/\ RefIntegrity'
       /\ \A i \in DOMAIN items' :
            (i \notin DOMAIN items \/ items'[i].category_id # items[i].category_id)
            => (items'[i].category_id # None
                /\ Val(items'[i].category_id) \in DOMAIN categories)
       /\ \A c \in DOMAIN categories \ DOMAIN categories' : Referencing(c) = {}]_vars

\* An item has been moved to another category, and a category that once had
\* an item has been deleted.
C3_Witness ==
    /\ \E i \in DOMAIN items :
          items[i].updated_at > items[i].created_at /\ items[i].category_id = Some(2)
    /\ 1 \notin DOMAIN categories
    /\ resp.op = "delete_category"
    /\ resp.status = "ok"

\* C4: every stored price is positive and has at most two decimal places (a
\* whole number of hundredths).
C4_PriceTwoDecimals ==
    \A i \in DOMAIN items :
        items[i].price # None /\ Val(items[i].price) > 0 /\ Val(items[i].price) % 10 = 0

Kept(old, new, changed) == \A k \in DOMAIN old \ changed : new[k] = old[k]

\* C5: an update that answers ok changes, in the updated row, only the keys
\* its body carries (and an item's updated_at), and changes no other row.
C5_PatchFrame ==
    [][/\ (resp'.op = "update_item" /\ resp'.status = "ok") =>
            \A id \in ItemIds, body \in ItemUpdateBodies :
                (resp'.body.id = id /\ update_item(id, body))
                => /\ categories' = categories
                   /\ DOMAIN items' = DOMAIN items
                   /\ \A j \in DOMAIN items \ {id} : items'[j] = items[j]
                   /\ Kept(items[id], items'[id], DOMAIN body \cup {"updated_at"})
       /\ (resp'.op = "update_category" /\ resp'.status = "ok") =>
            \A id \in CategoryIds, body \in CategoryUpdateBodies :
                (resp'.body.id = id /\ update_category(id, body))
                => /\ items' = items
                   /\ DOMAIN categories' = DOMAIN categories
                   /\ \A j \in DOMAIN categories \ {id} : categories'[j] = categories[j]
                   /\ Kept(categories[id], categories'[id], DOMAIN body)]_vars

\* An update of an item's description alone has just succeeded beside a
\* second item.
C5_Witness ==
    /\ resp.op = "update_item"
    /\ resp.status = "ok"
    /\ resp.body.description = Some("d")
    /\ resp.body.price = Some(1500)
    /\ resp.body.updated_at > resp.body.created_at
    /\ Cardinality(DOMAIN items) = 2

C7_ToggleTwice ==
    [][(resp.op = "toggle_item_active" /\ resp.status = "ok"
            /\ resp'.op = "toggle_item_active" /\ resp'.status = "ok") =>
        \A i \in ItemIds :
            (resp.body.item.id = i /\ toggle_item_active(i))
            => /\ items'[i].is_active = resp.body.found
               /\ resp'.body.item.is_active = Some(PyNot(resp'.body.found))
               /\ items'[i].created_at = items[i].created_at
               /\ items'[i].updated_at > items[i].updated_at]_vars

\* C9: every stored rating is a number from 0.0 to 5.0.
C9_RatingInRange ==
    \A i \in DOMAIN items :
        items[i].rating # None /\ Val(items[i].rating) >= 0 /\ Val(items[i].rating) <= RatingMax

\* An item satisfies every filter the query supplies.
Matches(i, q) ==
    /\ q.category_id # None => items[i].category_id = q.category_id
    /\ q.is_active # None => items[i].is_active = q.is_active
    /\ q.min_price # None =>
         (items[i].price # None /\ Val(items[i].price) >= Val(q.min_price))
    /\ q.max_price # None =>
         (items[i].price # None /\ Val(items[i].price) <= Val(q.max_price))
    /\ q.min_rating # None =>
         (items[i].rating # None /\ Val(items[i].rating) >= Val(q.min_rating))

FilterKeys == {"category_id", "is_active", "min_price", "max_price", "min_rating"}

\* The query that supplies only filter k of q, and no window.
Only(q, k) == [NoFilter EXCEPT ![k] = q[k]]

Ids(rows) == {rows[n].id : n \in 1..Len(rows)}

\* C10: list_items answers with the stored items that satisfy every supplied
\* filter, in id order, from the skip-th on and at most limit of them; with
\* no window that is the intersection of the answers to each filter alone.
C10_ListFilters ==
    [][(resp'.op = "list_items" /\ resp'.status = "ok") =>
        LET q == resp'.body.query
            got == resp'.body.items
            matching == {i \in DOMAIN items : Matches(i, q)}
            rank(i) == Cardinality({j \in matching : j < i})
            window == {i \in matching : rank(i) >= q.skip /\ rank(i) < q.skip + q.limit} IN
        /\ Len(got) = Cardinality(window)
        /\ Ids(got) = window
        /\ \A n \in 1..Len(got) : got[n] = items[got[n].id]
        /\ \A n \in 1..(Len(got) - 1) : got[n].id < got[n + 1].id
        /\ (q.skip = 0 /\ q.limit >= Cardinality(DOMAIN items)) =>
              \A i \in DOMAIN items :
                  i \in Ids(got) <=> \A k \in FilterKeys : i \in Ids(list_items_rows(Only(q, k)))]_vars

\* A price range and a category filter together select one of two items.
C10_Witness ==
    /\ resp.op = "list_items"
    /\ resp.status = "ok"
    /\ resp.body.query.category_id # None
    /\ resp.body.query.max_price # None
    /\ resp.body.query.skip = 0
    /\ Len(resp.body.items) = 1
    /\ Cardinality(DOMAIN items) = 2
    /\ \E i \in DOMAIN items : items[i].category_id = Some(1) /\ items[i].price = Some(10000)

\* The name a session is about to commit, and the row it writes (0 for the
\* row an INSERT adds).
CommitsName(p) ==
    IF session[p].op = "create_category" \/ Given(session[p].body, "name")
    THEN session[p].body["name"] ELSE None

\* C8: a request that passed its name check and finds, when it commits, the
\* name held by another category (a concurrent request committed it first)
\* ends with the duplicate-name error; and no two stored categories ever
\* have the same name.
C8_RaceEndsInDuplicateName ==
    [][/\ NamesUnique'
       /\ \A p \in Sessions :
            (session[p].pc = "commit" /\ session'[p].pc = "done"
                /\ CommitsName(p) # None
                /\ NameHeldBy(CommitsName(p)) \ {session[p].target} # {})
            => session'[p].out = "duplicate_name"]_vars

====
